---- MODULE Spec2Model ----
(***************************************************************************)
(* Semantic analyzer of chalk-lang (src/semantic.py) as a state machine.   *)
(*                                                                         *)
(* The recursive AST walk of SemanticAnalyzer is unfolded into a stack     *)
(* machine: the statements of the program are produced one at a time by    *)
(* the environment (the `for stmt in ...` loops of analyze, _check_if,     *)
(* _check_while and _check_func_def fetch them), and `frames` is the stack *)
(* of the block handlers that are active.  Every program whose statements  *)
(* are drawn from the input sets below, with at most MaxStmts statements   *)
(* and at most MaxDepth nested blocks, is a behaviour of Spec.             *)
(*                                                                         *)
(* All nodes are built with line = None (the default of ast_nodes.Node),   *)
(* so _error never adds the "[line #n]: " prefix.                          *)
(*                                                                         *)
(* The code generator (src/codegen.py) is modelled further down: generate  *)
(* receives a whole Program and SpecGen steps through its two loops.       *)
(***************************************************************************)
EXTENDS Integers, Sequences, FiniteSets, TLC

VARIABLES
    scopes,        \* SemanticAnalyzer.scopes: index 1 is global, last is current
    current_func,  \* SemanticAnalyzer.current_func: a FuncSymbol or None
    frames,        \* active _check_if/_check_while/_check_func_def calls
    pc,            \* "running" | "done" (analyze returned) | "raised"
    err,           \* the exception analyze raised, NoErr if none
    last,          \* the statement visited last, with the handler's locals
    nstmts,        \* number of statements visited so far
    program,       \* the Program handed to CodeGenerator.generate
    gen,           \* the CodeGenerator: output, indent_level, type tables
    gpc,           \* position of generate: "idle" | "start" | "funcs" |
                   \*   "main" | "done"
    gi,            \* index of the loop of generate that is running
    c_code         \* the text generate returned, <<>> before it returns

vars == <<scopes, current_func, frames, pc, err, last, nstmts>>
gvars == <<program, gen, gpc, gi, c_code>>

----------------------------------------------------------------------------
(* Bounds of the model *)

MaxStmts == 4
MaxDepth == 2
MaxDecls == 2
MaxTop == 3

----------------------------------------------------------------------------
(* Values *)

NoneV == [kind |-> "None"]
NoneType == "None"

Names == {"x", "f"}
TypeTags == {"int", "float", "string", "bool", "void"}
DeclTypes == {"int", "float"}
IntValues == {"3"}
FloatValues == {"2.0"}

(* AST nodes, src/ast_nodes.py *)
Number(v) == [kind |-> "Number", value |-> v]
String(v) == [kind |-> "String", value |-> v]
Bool(v) == [kind |-> "Bool", value |-> v]
Var(n) == [kind |-> "Var", name |-> n]
BinOp(l, o, r) == [kind |-> "BinOp", left |-> l, op |-> o, right |-> r]
UnaryOp(o, e) == [kind |-> "UnaryOp", op |-> o, operand |-> e]
FuncCall(n, a) == [kind |-> "FuncCall", name |-> n, args |-> a]
VarDecl(n, t, v, m) ==
    [kind |-> "VarDecl", name |-> n, type |-> t, value |-> v, mutable |-> m]
Assign(n, v) == [kind |-> "Assign", name |-> n, value |-> v]
IfStmt(c) == [kind |-> "IfStmt", condition |-> c]
WhileStmt(c) == [kind |-> "WhileStmt", condition |-> c]
FuncDef(n, p, t) ==
    [kind |-> "FuncDef", name |-> n, params |-> p, return_type |-> t]
ReturnStmt(v) == [kind |-> "ReturnStmt", value |-> v]
PrintStmt(vs) == [kind |-> "PrintStmt", values |-> vs]
ExprStmt(v) == [kind |-> "ExprStmt", value |-> v]

(* Symbols, src/semantic.py *)
Symbol(n, t, m) == [kind |-> "Symbol", name |-> n, type_ |-> t, mutable |-> m]
FuncSymbol(n, p, t) ==
    [kind |-> "FuncSymbol", name |-> n, params |-> p, return_type |-> t]
Scope == [n \in Names |-> NoneV]

(* Exceptions *)
NoErr == [kind |-> "None", message |-> <<>>]
ChalkError(msg) == [kind |-> "ChalkError", message |-> msg]
AttributeError(obj, attr) ==
    [kind |-> "AttributeError", message |-> <<obj, "object has no attribute", attr>>]
_error(msg) == ChalkError(<<"* ">> \o msg)

(* Outcome of an expression check: a returned type, or a raised exception *)
Ret(t) == [raised |-> FALSE, type |-> t, err |-> NoErr]
Raise(e) == [raised |-> TRUE, type |-> NoneType, err |-> e]

(* Python truthiness of a type tag (None is falsy, a tag is a non-empty str) *)
Truthy(t) == t # NoneType

----------------------------------------------------------------------------
(* Scope helpers *)

_push_scope(S) == Append(S, Scope)

_pop_scope(S) == SubSeq(S, 1, Len(S) - 1)

(* a define that writes the global scope instead of the current one *)
define_global(S, name, symbol) == [S EXCEPT ![1][name] = symbol]

_define(S, name, symbol) == [S EXCEPT ![Len(S)][name] = symbol]

RECURSIVE lookup_from(_, _, _)
lookup_from(S, name, i) ==
    IF i = 0 THEN NoneV
    ELSE IF S[i][name] # NoneV THEN S[i][name]
    ELSE lookup_from(S, name, i - 1)

(* a lookup that searches from the outermost scope inwards *)
RECURSIVE lookup_outermost_from(_, _, _)
lookup_outermost_from(S, name, i) ==
    IF i > Len(S) THEN NoneV
    ELSE IF S[i][name] # NoneV THEN S[i][name]
    ELSE lookup_outermost_from(S, name, i + 1)

lookup_outermost(S, name) == lookup_outermost_from(S, name, 1)

_lookup(S, name) == lookup_from(S, name, Len(S))

----------------------------------------------------------------------------
(* Expressions *)

ComparisonOps == {"==", "!=", "<", ">", "<=", ">="}
ArithmeticOps == {"+", "-", "*", "/"}

RECURSIVE _check_expr(_, _)
RECURSIVE _check_binop(_, _)
RECURSIVE _check_func_call(_, _)
RECURSIVE check_args(_, _, _, _)

check_var(node, S) ==
    LET sym == _lookup(S, node.name) IN
    IF sym = NoneV THEN Raise(_error(<<"undefined variable", node.name>>))
    ELSE IF "type_" \in DOMAIN sym THEN Ret(sym.type_)
    ELSE Raise(AttributeError(sym.kind, "type_"))

check_unary(node, S) ==
    LET r == _check_expr(node.operand, S) IN
    IF r.raised THEN r
    ELSE IF r.type \notin {"int", "float"}
         THEN Raise(_error(<<"unary '-' requires int or float, got", r.type>>))
    ELSE Ret(r.type)

_check_expr(node, S) ==
    IF node.kind = "Number"
    THEN Ret(IF node.value \in FloatValues THEN "float" ELSE "int")
    ELSE IF node.kind = "String" THEN Ret("string")
    ELSE IF node.kind = "Bool" THEN Ret("bool")
    ELSE IF node.kind = "Var" THEN check_var(node, S)
    ELSE IF node.kind = "UnaryOp" THEN check_unary(node, S)
    ELSE IF node.kind = "BinOp" THEN _check_binop(node, S)
    ELSE IF node.kind = "FuncCall" THEN _check_func_call(node, S)
    ELSE Ret(NoneType)

(* a binop rule that lets int and float meet as float *)
binop_promoting(node, left_type, right_type) ==
    LET numeric == {left_type, right_type} \subseteq {"int", "float"} IN
    IF node.op \in ComparisonOps
    THEN IF left_type # right_type /\ ~numeric
         THEN Raise(_error(<<"cannot compare", left_type, right_type>>))
         ELSE Ret("bool")
    ELSE IF node.op \in ArithmeticOps
    THEN IF left_type # right_type /\ ~numeric
         THEN Raise(_error(<<"type mismatch: cannot apply", node.op,
                             left_type, right_type>>))
         ELSE Ret(IF left_type = right_type THEN left_type ELSE "float")
    ELSE Ret(NoneType)

binop_result(node, left_type, right_type) ==
    IF node.op \in ComparisonOps
    THEN IF left_type # right_type
         THEN Raise(_error(<<"cannot compare", left_type, right_type>>))
         ELSE Ret("bool")
    ELSE IF node.op \in ArithmeticOps
    THEN IF left_type # right_type
         THEN Raise(_error(<<"type mismatch: cannot apply", node.op,
                             left_type, right_type>>))
         ELSE Ret(left_type)
    ELSE Ret(NoneType)

(* a binop check that walks the right operand before the left one *)
check_binop_right_first(node, S) ==
    LET r == _check_expr(node.right, S) IN
    IF r.raised THEN r
    ELSE LET l == _check_expr(node.left, S) IN
         IF l.raised THEN l
         ELSE binop_result(node, l.type, r.type)

_check_binop(node, S) ==
    LET l == _check_expr(node.left, S) IN
    IF l.raised THEN l
    ELSE LET r == _check_expr(node.right, S) IN
         IF r.raised THEN r
         ELSE binop_result(node, l.type, r.type)

(* the loop over zip(node.args, sym.params), from position i on *)
check_args(node, sym, i, S) ==
    IF i > Len(node.args) \/ i > Len(sym.params) THEN Ret(sym.return_type)
    ELSE LET a == _check_expr(node.args[i], S) IN
         IF a.raised THEN a
         ELSE IF Truthy(a.type) /\ a.type # sym.params[i][2]
         THEN Raise(_error(<<"argument", ToString(i), node.name,
                             sym.params[i][2], a.type>>))
         ELSE check_args(node, sym, i + 1, S)

(* a call check that walks the arguments before it compares the counts *)
check_func_call_args_first(node, S) ==
    LET sym == _lookup(S, node.name) IN
    IF sym = NoneV THEN Raise(_error(<<"undefined function", node.name>>))
    ELSE IF sym.kind # "FuncSymbol"
    THEN Raise(_error(<<"is a variable, not a function", node.name>>))
    ELSE LET a == check_args(node, sym, 1, S) IN
         IF a.raised THEN a
         ELSE IF Len(node.args) # Len(sym.params)
         THEN Raise(_error(<<"expects", node.name, ToString(Len(sym.params)),
                             ToString(Len(node.args))>>))
         ELSE a

_check_func_call(node, S) ==
    LET sym == _lookup(S, node.name) IN
    IF sym = NoneV THEN Raise(_error(<<"undefined function", node.name>>))
    ELSE IF sym.kind # "FuncSymbol"
    THEN Raise(_error(<<"is a variable, not a function", node.name>>))
    ELSE IF Len(node.args) # Len(sym.params)
    THEN Raise(_error(<<"expects", node.name, ToString(Len(sym.params)),
                        ToString(Len(node.args))>>))
    ELSE check_args(node, sym, 1, S)

----------------------------------------------------------------------------
(* Statements.  Each handler is an action on the analyzer's state. *)

NoLast == [node |-> NoneV, sym |-> NoneV, value_type |-> NoneType]
Locals(node, sym, value_type) ==
    [node |-> node, sym |-> sym, value_type |-> value_type]

(* An exception leaves the handler: it propagates through every active   *)
(* handler up to the caller of analyze.  No handler catches it or has a  *)
(* finally clause, so scopes and current_func stay as they are; frames   *)
(* stays too, as the traceback of the exception.                         *)
Raised(e) ==
    /\ err' = e
    /\ pc' = "raised"
    /\ UNCHANGED <<scopes, current_func, frames>>

Returned == UNCHANGED <<scopes, current_func, frames, pc, err>>

Frame(kind, func_sym, prev_func, entry) ==
    [kind |-> kind, func_sym |-> func_sym, prev_func |-> prev_func,
     entry |-> entry]

(* a declaration that registers the symbol before it checks the value *)
check_var_decl_define_first(node) ==
    LET defined == _define(scopes, node.name,
                           Symbol(node.name, node.type, node.mutable))
        r == _check_expr(node.value, defined)
    IN
    /\ last' = Locals(node, NoneV, r.type)
    /\ scopes' = defined
    /\ IF r.raised THEN err' = r.err /\ pc' = "raised"
       ELSE IF Truthy(r.type) /\ r.type # node.type
       THEN /\ err' = _error(<<"type mismatch:", node.name, node.type, r.type>>)
            /\ pc' = "raised"
       ELSE UNCHANGED <<pc, err>>
    /\ UNCHANGED <<current_func, frames>>

_check_var_decl(node) ==
    LET r == _check_expr(node.value, scopes) IN
    /\ last' = Locals(node, NoneV, r.type)
    /\ IF r.raised THEN Raised(r.err)
       ELSE IF Truthy(r.type) /\ r.type # node.type
       THEN Raised(_error(<<"type mismatch:", node.name, node.type, r.type>>))
       ELSE /\ scopes' = _define(scopes, node.name,
                                 Symbol(node.name, node.type, node.mutable))
            /\ UNCHANGED <<current_func, frames, pc, err>>

(* an assignment that accepts a value of any type *)
assign_value_unchecked(node, sym) ==
    LET r == _check_expr(node.value, scopes) IN
    /\ last' = Locals(node, sym, r.type)
    /\ IF r.raised THEN Raised(r.err) ELSE Returned

assign_value(node, sym) ==
    LET r == _check_expr(node.value, scopes) IN
    /\ last' = Locals(node, sym, r.type)
    /\ IF r.raised THEN Raised(r.err)
       ELSE IF ~Truthy(r.type) THEN Returned
       ELSE IF "type_" \notin DOMAIN sym
       THEN Raised(AttributeError(sym.kind, "type_"))
       ELSE IF r.type # sym.type_
       THEN Raised(_error(<<"type mismatch in assignment to", node.name,
                            sym.type_, r.type>>))
       ELSE Returned

_check_assign(node) ==
    LET sym == _lookup(scopes, node.name) IN
    IF sym = NoneV
    THEN /\ last' = Locals(node, sym, NoneType)
         /\ Raised(_error(<<"undefined variable", node.name>>))
    ELSE IF sym.kind = "Symbol" /\ ~sym.mutable
    THEN /\ last' = Locals(node, sym, NoneType)
         /\ Raised(_error(<<"cannot assign to immutable variable", node.name,
                            "hint: declare it as 'mut", node.name,
                            sym.type_>>))
    ELSE assign_value(node, sym)

(* _check_if up to the first statement of then_body *)
_check_if(node) ==
    LET r == _check_expr(node.condition, scopes) IN
    /\ last' = Locals(node, NoneV, r.type)
    /\ IF r.raised THEN Raised(r.err)
       ELSE /\ scopes' = _push_scope(scopes)
            /\ frames' = Append(frames, Frame("if_then", NoneV, NoneV, scopes))
            /\ UNCHANGED <<current_func, pc, err>>

(* _check_while up to the first statement of body *)
_check_while(node) ==
    LET r == _check_expr(node.condition, scopes) IN
    /\ last' = Locals(node, NoneV, r.type)
    /\ IF r.raised THEN Raised(r.err)
       ELSE /\ scopes' = _push_scope(scopes)
            /\ frames' = Append(frames, Frame("while", NoneV, NoneV, scopes))
            /\ UNCHANGED <<current_func, pc, err>>

RECURSIVE define_params(_, _, _)
define_params(S, params, i) ==
    IF i > Len(params) THEN S
    ELSE define_params(_define(S, params[i][1],
                               Symbol(params[i][1], params[i][2], FALSE)),
                       params, i + 1)

(* a FuncDef that does not register the function before its body *)
check_func_def_unregistered(node) ==
    LET func_sym == FuncSymbol(node.name, node.params, node.return_type) IN
    /\ last' = Locals(node, func_sym, NoneType)
    /\ scopes' = define_params(_push_scope(scopes), node.params, 1)
    /\ frames' = Append(frames, Frame("func_def", func_sym, current_func, scopes))
    /\ current_func' = func_sym
    /\ UNCHANGED <<pc, err>>

(* _check_func_def up to the first statement of body *)
_check_func_def(node) ==
    LET func_sym == FuncSymbol(node.name, node.params, node.return_type)
        defined == _define(scopes, node.name, func_sym)
    IN
    /\ last' = Locals(node, func_sym, NoneType)
    /\ scopes' = define_params(_push_scope(defined), node.params, 1)
    /\ frames' = Append(frames, Frame("func_def", func_sym, current_func, defined))
    /\ current_func' = func_sym
    /\ UNCHANGED <<pc, err>>

_check_return(node) ==
    IF current_func = NoneV
    THEN /\ last' = Locals(node, NoneV, NoneType)
         /\ Raised(_error(<<"'return' used outside of a function">>))
    ELSE LET r == _check_expr(node.value, scopes) IN
         /\ last' = Locals(node, NoneV, r.type)
         /\ IF r.raised THEN Raised(r.err)
            ELSE IF Truthy(r.type) /\ r.type # current_func.return_type
            THEN Raised(_error(<<"return type mismatch in", current_func.name,
                                 current_func.return_type, r.type>>))
            ELSE Returned

(* self._check_expr(node.value), for PrintStmt and for ExprStmt *)
check_value(node) ==
    IF "value" \notin DOMAIN node
    THEN /\ last' = Locals(node, NoneV, NoneType)
         /\ Raised(AttributeError(node.kind, "value"))
    ELSE LET r == _check_expr(node.value, scopes) IN
         /\ last' = Locals(node, NoneV, r.type)
         /\ IF r.raised THEN Raised(r.err) ELSE Returned

_check_stmt(node) ==
    /\ pc = "running"
    /\ UNCHANGED gvars
    /\ IF node.kind = "VarDecl" THEN _check_var_decl(node)
       ELSE IF node.kind = "Assign" THEN _check_assign(node)
       ELSE IF node.kind = "IfStmt" THEN _check_if(node)
       ELSE IF node.kind = "WhileStmt" THEN _check_while(node)
       ELSE IF node.kind = "FuncDef" THEN _check_func_def(node)
       ELSE IF node.kind = "ReturnStmt" THEN _check_return(node)
       ELSE IF node.kind = "PrintStmt" THEN check_value(node)
       ELSE IF node.kind = "ExprStmt" THEN check_value(node)
       ELSE /\ last' = Locals(node, NoneV, NoneType)
            /\ Returned

(* The rest of the block handlers, run when the body's loop is exhausted *)
Top == frames[Len(frames)]
Leaving(kind) == pc = "running" /\ frames # <<>> /\ Top.kind = kind

(* what `last` holds after a block is left: the scope that was popped and *)
(* the scope stack as it was when the block was entered                   *)
Left ==
    Locals([kind |-> "Leave", block |-> Top.kind,
            popped |-> scopes[Len(scopes)], entry |-> Top.entry],
           NoneV, NoneType)

(* _check_if between then_body and else_body *)
leave_then ==
    /\ Leaving("if_then")
    /\ scopes' = _push_scope(_pop_scope(scopes))
    /\ frames' = [frames EXCEPT ![Len(frames)].kind = "if_else"]
    /\ last' = Left
    /\ UNCHANGED <<current_func, pc, err, nstmts>>
    /\ UNCHANGED gvars

(* _check_if after else_body *)
leave_else ==
    /\ Leaving("if_else")
    /\ scopes' = _pop_scope(scopes)
    /\ frames' = SubSeq(frames, 1, Len(frames) - 1)
    /\ last' = Left
    /\ UNCHANGED <<current_func, pc, err, nstmts>>
    /\ UNCHANGED gvars

(* _check_while after body *)
leave_while ==
    /\ Leaving("while")
    /\ scopes' = _pop_scope(scopes)
    /\ frames' = SubSeq(frames, 1, Len(frames) - 1)
    /\ last' = Left
    /\ UNCHANGED <<current_func, pc, err, nstmts>>
    /\ UNCHANGED gvars

(* a FuncDef that does not restore the previous current function *)
leave_func_def_unrestored ==
    /\ Leaving("func_def")
    /\ scopes' = _pop_scope(scopes)
    /\ frames' = SubSeq(frames, 1, Len(frames) - 1)
    /\ last' = Left
    /\ UNCHANGED <<current_func, pc, err, nstmts>>
    /\ UNCHANGED gvars

(* _check_func_def after body *)
leave_func_def ==
    /\ Leaving("func_def")
    /\ current_func' = Top.prev_func
    /\ scopes' = _pop_scope(scopes)
    /\ frames' = SubSeq(frames, 1, Len(frames) - 1)
    /\ last' = Left
    /\ UNCHANGED <<pc, err, nstmts>>
    /\ UNCHANGED gvars

(* analyze returns: the loop over program.statements is exhausted *)
analyze_return ==
    /\ pc = "running"
    /\ frames = <<>>
    /\ pc' = "done"
    /\ last' = NoLast
    /\ UNCHANGED <<scopes, current_func, frames, err, nstmts>>
    /\ UNCHANGED gvars

----------------------------------------------------------------------------
(* Code generator, src/codegen.py.  A text is a sequence of pieces (a     *)
(* lexeme, a blank, a quote); a line of output is a text, and string      *)
(* concatenation is \o.                                                   *)

(* statements with their bodies, as generate receives them *)
IfBlock(c, t, e) ==
    [kind |-> "IfStmt", condition |-> c, then_body |-> t, else_body |-> e]
WhileBlock(c, b) == [kind |-> "WhileStmt", condition |-> c, body |-> b]
FuncBlock(n, p, t, b) ==
    [kind |-> "FuncDef", name |-> n, params |-> p, return_type |-> t,
     body |-> b]

chalk_type_to_c(type_) ==
    CASE type_ = "int" -> "int"
      [] type_ = "float" -> "float"
      [] type_ = "string" -> "char*"
      [] type_ = "bool" -> "int"
      [] type_ = "void" -> "void"

(* CodeGenerator.__init__; printed is the record of the _gen_print calls *)
CodeGenerator ==
    [indent_level |-> 0, output |-> <<>>,
     _var_types |-> [n \in Names |-> NoneType],
     _func_return_types |-> [n \in Names |-> NoneType],
     printed |-> <<>>]

RECURSIVE Repeat(_, _)
Repeat(s, n) == IF n = 0 THEN <<>> ELSE s \o Repeat(s, n - 1)

_indent(G) == Repeat(<<"    ">>, G.indent_level)

_emit(G, line) == [G EXCEPT !.output = Append(@, _indent(G) \o line)]

(* sep.join(texts) *)
RECURSIVE Join(_, _)
Join(texts, sep) ==
    IF texts = <<>> THEN <<>>
    ELSE IF Len(texts) = 1 THEN texts[1]
    ELSE texts[1] \o sep \o Join(Tail(texts), sep)

RECURSIVE _gen_expr(_)
_gen_expr(node) ==
    IF node.kind = "Number" THEN <<node.value>>
    ELSE IF node.kind = "String" THEN <<"\"", node.value, "\"">>
    ELSE IF node.kind = "Bool" THEN IF node.value THEN <<"1">> ELSE <<"0">>
    ELSE IF node.kind = "Var" THEN <<node.name>>
    ELSE IF node.kind = "UnaryOp" /\ node.op = "-"
    THEN <<"-">> \o _gen_expr(node.operand)
    ELSE IF node.kind = "BinOp"
    THEN <<"(">> \o _gen_expr(node.left) \o <<" ", node.op, " ">>
                 \o _gen_expr(node.right) \o <<")">>
    ELSE IF node.kind = "FuncCall"
    THEN <<node.name, "(">>
             \o Join([i \in DOMAIN node.args |-> _gen_expr(node.args[i])],
                     <<", ">>)
             \o <<")">>
    ELSE <<"None">>

(* a derivation that knows no calls *)
RECURSIVE expr_type_without_calls(_, _)
expr_type_without_calls(G, node) ==
    IF node.kind = "Number"
    THEN IF node.value \in FloatValues THEN "float" ELSE "int"
    ELSE IF node.kind = "String" THEN "string"
    ELSE IF node.kind = "Bool" THEN "bool"
    ELSE IF node.kind = "Var" THEN G._var_types[node.name]
    ELSE IF node.kind = "UnaryOp"
    THEN expr_type_without_calls(G, node.operand)
    ELSE IF node.kind = "BinOp"
    THEN IF node.op \in ComparisonOps THEN "bool"
         ELSE expr_type_without_calls(G, node.left)
    ELSE NoneType

RECURSIVE _expr_type(_, _)
_expr_type(G, node) ==
    IF node.kind = "Number"
    THEN IF node.value \in FloatValues THEN "float" ELSE "int"
    ELSE IF node.kind = "String" THEN "string"
    ELSE IF node.kind = "Bool" THEN "bool"
    ELSE IF node.kind = "Var" THEN G._var_types[node.name]
    ELSE IF node.kind = "UnaryOp" THEN _expr_type(G, node.operand)
    ELSE IF node.kind = "BinOp"
    THEN IF node.op \in ComparisonOps THEN "bool"
         ELSE _expr_type(G, node.left)
    ELSE IF node.kind = "FuncCall" THEN G._func_return_types[node.name]
    ELSE NoneType

_fmt(type_) ==
    CASE type_ = "string" -> "%s"
      [] type_ = "float" -> "%f"
      [] type_ = "bool" -> "%d"
      [] type_ = "int" -> "%d"
      [] OTHER -> "%d"

_gen_print(G, values) ==
    LET types == [i \in DOMAIN values |-> _expr_type(G, values[i])]
        fmt == [i \in DOMAIN values |-> _fmt(types[i])] \o <<"\\n">>
        args == Join([i \in DOMAIN values |-> _gen_expr(values[i])], <<", ">>)
        E == _emit(G, <<"printf", "(", "\"">> \o fmt \o <<"\"", ", ">>
                          \o args \o <<")", ";">>)
    IN  [E EXCEPT !.printed =
             Append(@, [values |-> values, types |-> types,
                        line |-> Len(E.output)])]

Indented(G, d) == [G EXCEPT !.indent_level = @ + d]

(* for param_name, param_type in params: self._var_types[...] = ... *)
RECURSIVE record_params(_, _, _)
record_params(G, params, i) ==
    IF i > Len(params) THEN G
    ELSE record_params([G EXCEPT !._var_types[params[i][1]] = params[i][2]],
                       params, i + 1)

RECURSIVE _gen_stmt(_, _)
RECURSIVE gen_body(_, _, _)

(* for stmt in body: self._gen_stmt(stmt), from position i on *)
gen_body(G, body, i) ==
    IF i > Len(body) THEN G
    ELSE gen_body(_gen_stmt(G, body[i]), body, i + 1)

gen_var_decl(G, node) ==
    LET T == [G EXCEPT !._var_types[node.name] = node.type]
        c_type == chalk_type_to_c(node.type)
        c_value == _gen_expr(node.value)
    IN  IF node.mutable
        THEN _emit(T, <<c_type, " ", node.name, " = ">> \o c_value \o <<";">>)
        ELSE _emit(T, <<"const ", c_type, " ", node.name, " = ">>
                          \o c_value \o <<";">>)

gen_if(G, node) ==
    LET opened == _emit(G, <<"if", " ", "(">> \o _gen_expr(node.condition)
                              \o <<")", " ", "{">>)
        then_done == Indented(gen_body(Indented(opened, 1), node.then_body, 1),
                              -1)
        else_done ==
            IF node.else_body # <<>>
            THEN Indented(gen_body(Indented(_emit(then_done,
                                                  <<"}", " ", "else", " ", "{">>),
                                            1),
                                   node.else_body, 1),
                          -1)
            ELSE then_done
    IN  _emit(else_done, <<"}">>)

gen_while(G, node) ==
    LET opened == _emit(G, <<"while", " ", "(">> \o _gen_expr(node.condition)
                              \o <<")", " ", "{">>)
    IN  _emit(Indented(gen_body(Indented(opened, 1), node.body, 1), -1),
              <<"}">>)

gen_func_def(G, node) ==
    LET R == [G EXCEPT !._func_return_types[node.name] = node.return_type]
        P == record_params(R, node.params, 1)
        c_return == chalk_type_to_c(node.return_type)
        c_params ==
            Join([i \in DOMAIN node.params |->
                      <<chalk_type_to_c(node.params[i][2]), " ",
                        node.params[i][1]>>],
                 <<", ">>)
        opened == _emit(P, <<c_return, " ", node.name, "(">> \o c_params
                              \o <<")", " ", "{">>)
        closed == _emit(Indented(gen_body(Indented(opened, 1), node.body, 1),
                                 -1),
                        <<"}">>)
    IN  _emit(closed, <<>>)

_gen_stmt(G, node) ==
    IF node.kind = "VarDecl" THEN gen_var_decl(G, node)
    ELSE IF node.kind = "Assign"
    THEN _emit(G, <<node.name, " = ">> \o _gen_expr(node.value) \o <<";">>)
    ELSE IF node.kind = "PrintStmt" THEN _gen_print(G, node.values)
    ELSE IF node.kind = "ReturnStmt"
    THEN IF node.value = NoneV THEN _emit(G, <<"return", ";">>)
         ELSE _emit(G, <<"return", " ">> \o _gen_expr(node.value) \o <<";">>)
    ELSE IF node.kind = "ExprStmt"
    THEN _emit(G, _gen_expr(node.value) \o <<";">>)
    ELSE IF node.kind = "IfStmt" THEN gen_if(G, node)
    ELSE IF node.kind = "WhileStmt" THEN gen_while(G, node)
    ELSE IF node.kind = "FuncDef" THEN gen_func_def(G, node)
    ELSE G

(* generate, one step per iteration of its loops *)
non_func == SelectSeq(program, LAMBDA s : s.kind # "FuncDef")

(* the three lines of the prologue *)
generate_includes ==
    /\ gpc = "start"
    /\ gen' = _emit(_emit(_emit(gen, <<"#include <stdio.h>">>),
                          <<"#include <string.h>">>),
                    <<>>)
    /\ gpc' = "funcs"
    /\ gi' = 1
    /\ UNCHANGED <<program, c_code>>
    /\ UNCHANGED vars

(* first loop, a FuncDef: it is generated at file scope *)
generate_func_def ==
    /\ gpc = "funcs"
    /\ gi <= Len(program)
    /\ program[gi].kind = "FuncDef"
    /\ gen' = _gen_stmt(gen, program[gi])
    /\ gi' = gi + 1
    /\ UNCHANGED <<program, gpc, c_code>>
    /\ UNCHANGED vars

(* first loop, any other statement: it is passed over *)
generate_pass ==
    /\ gpc = "funcs"
    /\ gi <= Len(program)
    /\ program[gi].kind # "FuncDef"
    /\ gi' = gi + 1
    /\ UNCHANGED <<program, gen, gpc, c_code>>
    /\ UNCHANGED vars

(* non_func is not empty: main is opened *)
generate_main ==
    /\ gpc = "funcs"
    /\ gi > Len(program)
    /\ non_func # <<>>
    /\ gen' = Indented(_emit(gen, <<"int", " ", "main", "(", ")", " ", "{">>), 1)
    /\ gpc' = "main"
    /\ gi' = 1
    /\ UNCHANGED <<program, c_code>>
    /\ UNCHANGED vars

(* second loop: a statement of non_func is generated inside main *)
generate_stmt ==
    /\ gpc = "main"
    /\ gi <= Len(non_func)
    /\ gen' = _gen_stmt(gen, non_func[gi])
    /\ gi' = gi + 1
    /\ UNCHANGED <<program, gpc, c_code>>
    /\ UNCHANGED vars

(* main is closed and generate returns the joined lines *)
generate_main_return ==
    /\ gpc = "main"
    /\ gi > Len(non_func)
    /\ gen' = _emit(Indented(_emit(gen, <<"return", " ", "0", ";">>), -1),
                    <<"}">>)
    /\ c_code' = Join(gen'.output, <<"\n">>)
    /\ gpc' = "done"
    /\ UNCHANGED <<program, gi>>
    /\ UNCHANGED vars

(* non_func is empty: generate returns the joined lines *)
generate_return ==
    /\ gpc = "funcs"
    /\ gi > Len(program)
    /\ non_func = <<>>
    /\ c_code' = Join(gen.output, <<"\n">>)
    /\ gpc' = "done"
    /\ UNCHANGED <<program, gen, gi>>
    /\ UNCHANGED vars

----------------------------------------------------------------------------------------------------------------------------------------
(* Programs: the nodes the environment draws statements from *)

Literals == {Number(v) : v \in IntValues \cup FloatValues}
Atoms == Literals \cup {Var(n) : n \in Names}
VarNames == {"x"}
FuncNames == {"f"}
Params == Names \X {"int"}
ParamLists == {<<>>} \cup {<<p>> : p \in Params}

VarDecls ==
    {VarDecl(n, t, v, m) : n \in VarNames, t \in DeclTypes, v \in Atoms,
                           m \in BOOLEAN}
Assigns == {Assign(n, v) : n \in Names, v \in Atoms}
IfStmts == {IfStmt(c) : c \in Atoms}
WhileStmts == {WhileStmt(c) : c \in Atoms}
FuncDefs ==
    {FuncDef(n, p, t) : n \in FuncNames, p \in ParamLists, t \in DeclTypes}
ReturnStmts == {ReturnStmt(v) : v \in Atoms \cup {NoneV}}
PrintStmts == {PrintStmt(<<v>>) : v \in Atoms}
ExprStmts == {ExprStmt(v) : v \in Atoms}

(* analyze, or the loop of a block handler, fetches the next statement *)
Visit(nodes) ==
    /\ nstmts < MaxStmts
    /\ nstmts' = nstmts + 1
    /\ \E node \in nodes : _check_stmt(node)

CanNest == Len(frames) < MaxDepth

Init ==
    /\ scopes = <<Scope>>
    /\ current_func = NoneV
    /\ frames = <<>>
    /\ pc = "running"
    /\ err = NoErr
    /\ last = NoLast
    /\ nstmts = 0
    /\ program = <<>>
    /\ gen = CodeGenerator
    /\ gpc = "idle"
    /\ gi = 0
    /\ c_code = <<>>

VisitVarDecl == Visit(VarDecls)
VisitAssign == Visit(Assigns)
VisitIf == CanNest /\ Visit(IfStmts)
VisitWhile == CanNest /\ Visit(WhileStmts)
VisitFuncDef == CanNest /\ Visit(FuncDefs)
VisitReturn == Visit(ReturnStmts)
VisitPrint == Visit(PrintStmts)
VisitExprStmt == Visit(ExprStmts)

Next ==
    \/ VisitVarDecl
    \/ VisitAssign
    \/ VisitIf
    \/ VisitWhile
    \/ VisitFuncDef
    \/ VisitReturn
    \/ VisitPrint
    \/ VisitExprStmt
    \/ leave_then
    \/ leave_else
    \/ leave_while
    \/ leave_func_def
    \/ analyze_return

Spec == Init /\ [][Next]_<<vars, gvars>>

----------------------------------------------------------------------------
(* Properties of the statement rules, checked under Spec *)

Max(I) == CHOOSE i \in I : \A j \in I : j <= i

(* the binding of name in the innermost scope of S that binds it *)
Nearest(S, name) ==
    LET bound == {i \in 1..Len(S) : S[i][name] # NoneV} IN
    IF bound = {} THEN NoneV ELSE S[Max(bound)][name]

IsVar(sym) == sym.kind = "Symbol"
Visited(kind) == last.node.kind = kind
ImmutableMsg(name, type) ==
    _error(<<"cannot assign to immutable variable", name,
             "hint: declare it as 'mut", name, type>>)

(* C1: analyze either returns normally or raises ChalkError; it never   *)
(* raises an exception of any other kind.                               *)
C1_OnlySemanticErrors ==
    /\ pc = "raised" => err.kind = "ChalkError"
    /\ pc # "raised" => err = NoErr

(* C2: a Print statement checks each printed expression and nothing     *)
(* else: it passes when every expression is valid (a declared variable, *)
(* a literal) and raises the expression's error (undefined variable for *)
(* an unbound name) otherwise.                                          *)
C2_PrintChecksValues ==
    Visited("PrintStmt") =>
        LET vs == last.node.values
            bad == {i \in DOMAIN vs : _check_expr(vs[i], scopes).raised}
        IN  IF bad = {} THEN pc # "raised" /\ err = NoErr
            ELSE \E i \in bad :
                    /\ \A j \in bad : i <= j
                    /\ pc = "raised"
                    /\ err = _check_expr(vs[i], scopes).err

(* C3: when analyze has terminated, by return or by an exception, only  *)
(* the global scope is left on the scope stack.                         *)
C3_ScopesPopped == pc \in {"done", "raised"} => Len(scopes) = 1

(* C4: an Assign whose target's nearest binding is an immutable         *)
(* variable raises the immutability error naming the variable, with the *)
(* declared type in the hint; when the nearest binding is a mutable     *)
(* variable no immutability error is raised, whatever outer scopes bind.*)
C4_ImmutableAssign ==
    Visited("Assign") =>
        LET name == last.node.name
            sym == Nearest(scopes, name)
        IN  /\ (IsVar(sym) /\ ~sym.mutable) =>
                   pc = "raised" /\ err = ImmutableMsg(name, sym.type_)
            /\ (IsVar(sym) /\ sym.mutable) =>
                   \A t \in TypeTags : err # ImmutableMsg(name, t)

(* C4 witness: the nearest binding of x is an immutable parameter, an   *)
(* outer x is mutable, and the Assign raised the immutability error.    *)
C4_Witness ==
    /\ Visited("Assign")
    /\ Len(scopes) >= 2
    /\ IsVar(scopes[1]["x"]) /\ scopes[1]["x"].mutable
    /\ IsVar(scopes[2]["x"]) /\ ~scopes[2]["x"].mutable
    /\ last.node.name = "x"
    /\ err = ImmutableMsg("x", scopes[2]["x"].type_)

(* the other half of C4 happens too: nearest mutable, outer immutable *)
C4_WitnessMutable ==
    /\ Visited("Assign")
    /\ Len(scopes) >= 2
    /\ IsVar(scopes[1]["x"]) /\ ~scopes[1]["x"].mutable
    /\ IsVar(scopes[2]["x"]) /\ scopes[2]["x"].mutable
    /\ last.node.name = "x"
    /\ pc = "running"

(* C5: when a block has been analyzed, every name resolves to the       *)
(* binding it had when the block was entered; and the else-branch       *)
(* starts from the bindings the then-branch started from.               *)
C5_BlockLeavesBindings ==
    Visited("Leave") =>
        /\ \A n \in Names :
               Nearest(scopes, n) = Nearest(last.node.entry, n)
        /\ last.node.block = "if_then" =>
               /\ Len(scopes) = Len(last.node.entry) + 1
               /\ \A n \in Names : scopes[Len(scopes)][n] = NoneV
        /\ last.node.block # "if_then" =>
               Len(scopes) = Len(last.node.entry)

(* C5 witness: the block just left had declared x with another type     *)
(* than the outer x, which is what x resolves to again.                 *)
C5_Witness ==
    /\ Visited("Leave")
    /\ IsVar(last.node.popped["x"])
    /\ IsVar(Nearest(scopes, "x"))
    /\ last.node.popped["x"].type_ # Nearest(scopes, "x").type_
    /\ Nearest(scopes, "x") = Nearest(last.node.entry, "x")

UndefinedVarMsg(name) == _error(<<"undefined variable", name>>)
AssignMismatchMsg(name, expected, got) ==
    _error(<<"type mismatch in assignment to", name, expected, got>>)

(* this step visits an Assign *)
AssignStep == nstmts' = nstmts + 1 /\ last'.node.kind = "Assign"

(* C10 as stated: an Assign to an unbound name raises 'undefined        *)
(* variable'; otherwise a value of known type other than the target's   *)
(* declared type raises 'type mismatch in assignment'; an Assign to a   *)
(* mutable variable of the value's type returns and changes nothing.    *)
C10_AssignRuleAsStated ==
    [][AssignStep =>
        LET name == last'.node.name
            sym == Nearest(scopes, name)
            r == _check_expr(last'.node.value, scopes)
        IN  /\ sym = NoneV =>
                   pc' = "raised" /\ err' = UndefinedVarMsg(name)
            /\ (IsVar(sym) /\ ~r.raised /\ Truthy(r.type)
                    /\ r.type # sym.type_) =>
                   /\ pc' = "raised"
                   /\ err' = AssignMismatchMsg(name, sym.type_, r.type)
            /\ (IsVar(sym) /\ sym.mutable /\ ~r.raised
                    /\ r.type = sym.type_) =>
                   /\ pc' = "running" /\ err' = NoErr
                   /\ scopes' = scopes /\ current_func' = current_func
    ]_vars

(* C10, amended: an Assign to an unbound name raises 'undefined         *)
(* variable'; an Assign to a mutable variable raises 'type mismatch in  *)
(* assignment' when the value's type is known and is not the declared   *)
(* type, and returns, changing no scope and no binding, when the        *)
(* value's type is the declared type.                                   *)
C10_AssignRule ==
    [][AssignStep =>
        LET name == last'.node.name
            sym == Nearest(scopes, name)
            r == _check_expr(last'.node.value, scopes)
        IN  /\ sym = NoneV =>
                   pc' = "raised" /\ err' = UndefinedVarMsg(name)
            /\ (IsVar(sym) /\ sym.mutable /\ ~r.raised /\ Truthy(r.type)
                    /\ r.type # sym.type_) =>
                   /\ pc' = "raised"
                   /\ err' = AssignMismatchMsg(name, sym.type_, r.type)
            /\ (IsVar(sym) /\ sym.mutable /\ ~r.raised
                    /\ r.type = sym.type_) =>
                   /\ pc' = "running" /\ err' = NoErr
                   /\ scopes' = scopes /\ current_func' = current_func
    ]_vars

(* C10 witness: a mutable float variable was assigned the int literal 3 *)
(* and the Assign raised the mismatch of float and int.                 *)
C10_Witness ==
    /\ Visited("Assign")
    /\ last.node.value = Number("3")
    /\ IsVar(last.sym) /\ last.sym.mutable /\ last.sym.type_ = "float"
    /\ pc = "raised"
    /\ err = AssignMismatchMsg(last.node.name, "float", "int")

----------------------------------------------------------------------------
(* Expression rules.  SpecExpr walks programs of up to MaxDecls          *)
(* declarations (variables with a literal initializer, functions)       *)
(* followed by one statement that holds a compound expression, which is *)
(* the last statement of the program.                                   *)

TestLiterals == Literals \cup {String("s"), Bool(TRUE)}
TestOperands ==
    TestLiterals \cup {Var(n) : n \in Names}
                 \cup {FuncCall(n, <<>>) : n \in Names}
TestArgs == {Number("3"), Number("2.0"), Var("x")}
TestArgLists ==
    {<<>>} \cup {<<a>> : a \in TestArgs}
           \cup {<<a, b>> : a \in TestArgs, b \in TestArgs}
TestNested ==
    {UnaryOp("-", UnaryOp("-", a)) : a \in TestArgs}
    \cup {BinOp(UnaryOp("-", a), "+", b) : a \in TestArgs, b \in TestArgs}
    \cup {BinOp(a, "<", BinOp(b, "*", c)) :
              a \in TestArgs, b \in TestArgs, c \in TestArgs}
TestExprs ==
    {UnaryOp("-", e) : e \in TestOperands}
    \cup {BinOp(l, o, r) : l \in TestOperands,
                           o \in ComparisonOps \cup ArithmeticOps,
                           r \in TestOperands}
    \cup {FuncCall(n, a) : n \in Names, a \in TestArgLists}
    \cup TestNested

TestParamLists ==
    {<<>>, <<<<"x", "int">>>>, <<<<"f", "int">>>>,
     <<<<"x", "int">>, <<"f", "float">>>>}
TestVarDecls ==
    {VarDecl(n, "int", Number("3"), m) : n \in Names, m \in BOOLEAN}
TestFuncDefs ==
    {FuncDef(n, p, t) : n \in FuncNames, p \in TestParamLists,
                        t \in {"int", "void"}}
TestExprStmts == {ExprStmt(e) : e \in TestExprs}
TestAssigns == {Assign(n, v) : n \in Names, v \in TestOperands}

Declare(nodes) ==
    /\ nstmts < MaxDecls
    /\ nstmts' = nstmts + 1
    /\ \E node \in nodes : _check_stmt(node)

(* the statement under test ends the program *)
Test(nodes) ==
    /\ nstmts <= MaxDecls
    /\ nstmts' = MaxDecls + 1
    /\ \E node \in nodes : _check_stmt(node)

DeclareVar == Declare(TestVarDecls)
DefineFunc == CanNest /\ Declare(TestFuncDefs)
TestExprStmt == Test(TestExprStmts)
TestAssign == Test(TestAssigns)

NextExpr ==
    \/ DeclareVar
    \/ DefineFunc
    \/ leave_func_def
    \/ TestExprStmt
    \/ TestAssign
    \/ analyze_return

SpecExpr == Init /\ [][NextExpr]_<<vars, gvars>>

----------------------------------------------------------------------------
(* Properties of the expression rules, checked under SpecExpr *)

Min(I) == CHOOSE i \in I : \A j \in I : i <= j

(* the statement visited last is an ExprStmt holding a node of this kind *)
Tested(kind) == Visited("ExprStmt") /\ last.node.value.kind = kind

FuncFrames == {k \in DOMAIN frames : frames[k].kind = "func_def"}

(* the arguments of the call are as many as the parameters, each of the *)
(* parameter's type                                                     *)
ArgsMatch(call, params) ==
    /\ Len(call.args) = Len(params)
    /\ \A i \in DOMAIN call.args :
           _check_expr(call.args[i], scopes) = Ret(params[i][2])

(* no scope from the body of the function of frame k inwards binds name *)
Unshadowed(k, name) ==
    \A i \in (Len(frames[k].entry) + 1)..Len(scopes) :
        scopes[i][name] = NoneV

(* C6 as stated: in the body of any FuncDef f, a Call to f whose        *)
(* arguments match f's parameters resolves to f and yields f's return   *)
(* type, whatever parameters f has.                                     *)
C6_RecursiveCallAsStated ==
    Tested("FuncCall") =>
        \A k \in FuncFrames :
            LET f == frames[k].func_sym IN
            (last.node.value.name = f.name
                 /\ ArgsMatch(last.node.value, f.params)) =>
                /\ pc = "running" /\ err = NoErr
                /\ last.value_type = f.return_type

(* C6, amended: in the body of any FuncDef f, a Call to f whose         *)
(* arguments match f's parameters resolves to f and yields f's return   *)
(* type, provided no parameter of f and no declaration in the body      *)
(* made so far binds f's name.                                          *)
C6_RecursiveCall ==
    Tested("FuncCall") =>
        \A k \in FuncFrames :
            LET f == frames[k].func_sym IN
            (last.node.value.name = f.name
                 /\ ArgsMatch(last.node.value, f.params)
                 /\ Unshadowed(k, f.name)) =>
                /\ pc = "running" /\ err = NoErr
                /\ last.value_type = f.return_type

(* C6 witness: in the body of f, which has a parameter, the call of f   *)
(* with a matching argument returned f's return type.                   *)
C6_Witness ==
    /\ Tested("FuncCall")
    /\ \E k \in FuncFrames :
           /\ last.node.value.name = frames[k].func_sym.name
           /\ Len(frames[k].func_sym.params) >= 1
           /\ ArgsMatch(last.node.value, frames[k].func_sym.params)
           /\ Unshadowed(k, frames[k].func_sym.name)
           /\ last.value_type = frames[k].func_sym.return_type
    /\ pc = "running"

CompareMsg(l, r) == _error(<<"cannot compare", l, r>>)
ArithmeticMsg(op, l, r) ==
    _error(<<"type mismatch: cannot apply", op, l, r>>)

(* C7: a BinOp whose operands have types l and r: a comparison raises   *)
(* 'cannot compare' when l # r and yields bool when l = r; an           *)
(* arithmetic operator raises 'type mismatch' when l # r and yields l   *)
(* when l = r.  int and float count as different types.                 *)
C7_BinOpTyping ==
    Tested("BinOp") =>
        LET node == last.node.value
            l == _check_expr(node.left, scopes)
            r == _check_expr(node.right, scopes)
        IN  (~l.raised /\ ~r.raised) =>
            /\ node.op \in ComparisonOps =>
                   IF l.type # r.type
                   THEN pc = "raised" /\ err = CompareMsg(l.type, r.type)
                   ELSE pc = "running" /\ last.value_type = "bool"
            /\ node.op \in ArithmeticOps =>
                   IF l.type # r.type
                   THEN /\ pc = "raised"
                        /\ err = ArithmeticMsg(node.op, l.type, r.type)
                   ELSE pc = "running" /\ last.value_type = l.type

(* C7 witness: 3 + 2.0 raised the mismatch of int and float *)
C7_Witness ==
    /\ Tested("BinOp")
    /\ last.node.value = BinOp(Number("3"), "+", Number("2.0"))
    /\ pc = "raised"
    /\ err = ArithmeticMsg("+", "int", "float")

ArityMsg(name, nparams, nargs) ==
    _error(<<"expects", name, ToString(nparams), ToString(nargs)>>)
IsArityError(e) ==
    e.kind = "ChalkError" /\ Len(e.message) = 5 /\ e.message[2] = "expects"

(* C8: a Call whose callee is bound to a function raises the arity      *)
(* error, naming the parameter count and the argument count, when the   *)
(* two differ, and raises no arity error when they are equal.           *)
C8_Arity ==
    Tested("FuncCall") =>
        LET call == last.node.value
            sym == Nearest(scopes, call.name)
        IN  sym.kind = "FuncSymbol" =>
                IF Len(call.args) # Len(sym.params)
                THEN /\ pc = "raised"
                     /\ err = ArityMsg(call.name, Len(sym.params),
                                       Len(call.args))
                ELSE ~IsArityError(err)

(* C8 witness: a function of two parameters was called with one         *)
(* argument and the call raised "expects 2, got 1".                     *)
C8_Witness ==
    /\ Tested("FuncCall")
    /\ Nearest(scopes, last.node.value.name).kind = "FuncSymbol"
    /\ Len(Nearest(scopes, last.node.value.name).params) = 2
    /\ Len(last.node.value.args) = 1
    /\ err = ArityMsg(last.node.value.name, 2, 1)

(* what argument i of the call raises, NoErr if it passes *)
ArgError(call, sym, i) ==
    LET a == _check_expr(call.args[i], scopes) IN
    IF a.raised THEN a.err
    ELSE IF Truthy(a.type) /\ a.type # sym.params[i][2]
    THEN _error(<<"argument", ToString(i), call.name, sym.params[i][2],
                  a.type>>)
    ELSE NoErr

(* the error of the statement visited last is the one of the part of    *)
(* the statement that is walked first                                   *)
FirstViolation ==
    /\ Tested("BinOp") =>
           LET l == _check_expr(last.node.value.left, scopes)
               r == _check_expr(last.node.value.right, scopes)
           IN  /\ l.raised => err = l.err
               /\ (~l.raised /\ r.raised) => err = r.err
    /\ Visited("Assign") =>
           LET sym == Nearest(scopes, last.node.name) IN
           (IsVar(sym) /\ ~sym.mutable) =>
               err = ImmutableMsg(last.node.name, sym.type_)
    /\ Tested("FuncCall") =>
           LET call == last.node.value
               sym == Nearest(scopes, call.name)
               bad == {i \in DOMAIN call.args :
                           ArgError(call, sym, i) # NoErr}
           IN  sym.kind = "FuncSymbol" =>
                   IF Len(call.args) # Len(sym.params)
                   THEN err = ArityMsg(call.name, Len(sym.params),
                                       Len(call.args))
                   ELSE bad # {} => err = ArgError(call, sym, Min(bad))

(* C9: analyze raises at most once, at the first violation of the walk: *)
(* after the exception nothing is visited and nothing is defined, the   *)
(* raising step defines nothing, and of several violations in one       *)
(* statement the one walked first is reported (the left operand of a    *)
(* BinOp before the right one, the immutable target of an Assign before *)
(* its value, the argument count of a Call before its arguments, the    *)
(* arguments from left to right).                                       *)
C9_FirstErrorOnly ==
    [][/\ pc = "raised" => UNCHANGED vars
       /\ pc' = "raised" =>
              /\ scopes' = scopes
              /\ current_func' = current_func
              /\ err' # NoErr
              /\ FirstViolation'
    ]_vars

(* C9 witness: both operands of a BinOp are invalid, with different     *)
(* errors, and the error raised is the left operand's.                  *)
C9_Witness ==
    /\ Tested("BinOp")
    /\ _check_expr(last.node.value.left, scopes).raised
    /\ _check_expr(last.node.value.right, scopes).raised
    /\ _check_expr(last.node.value.left, scopes).err
           # _check_expr(last.node.value.right, scopes).err
    /\ pc = "raised"
    /\ err = _check_expr(last.node.value.left, scopes).err

----------------------------------------------------------------------------
(* Declarations and returns, checked under Spec *)

DeclMismatchMsg(name, declared, got) ==
    _error(<<"type mismatch:", name, declared, got>>)
ReturnOutsideMsg == _error(<<"'return' used outside of a function">>)
ReturnMismatchMsg(name, expected, got) ==
    _error(<<"return type mismatch in", name, expected, got>>)

(* this step visits a statement of this kind *)
Step(kind) == nstmts' = nstmts + 1 /\ last'.node.kind = kind

(* C14: in a VarDecl whose initializer is a reference to the declared   *)
(* name, the reference resolves to the binding the name had before the  *)
(* declaration (nearest enclosing or earlier in the same scope) and     *)
(* fails with 'undefined variable' when there was none; the symbol is   *)
(* defined in the current scope when the declaration passes, and no     *)
(* scope changes when the initializer or the declared type fails.       *)
C14_DeclAfterInit ==
    [][Step("VarDecl") =>
        LET node == last'.node
            prior == Nearest(scopes, node.name)
            selfref == node.value = Var(node.name)
            declared == Symbol(node.name, node.type, node.mutable)
        IN  /\ (selfref /\ prior = NoneV) =>
                   pc' = "raised" /\ err' = UndefinedVarMsg(node.name)
            /\ (selfref /\ IsVar(prior)) =>
                   /\ last'.value_type = prior.type_
                   /\ IF prior.type_ # node.type
                      THEN /\ pc' = "raised"
                           /\ err' = DeclMismatchMsg(node.name, node.type,
                                                     prior.type_)
                      ELSE pc' = "running" /\ err' = NoErr
            /\ pc' = "raised" => scopes' = scopes
            /\ pc' = "running" =>
                   scopes' = [scopes EXCEPT ![Len(scopes)][node.name] = declared]
    ]_vars

(* C14 witness: in an inner scope, x: float = x was declared while the  *)
(* enclosing x is an int: the initializer resolved to the outer x, the  *)
(* declaration raised the mismatch and the inner scope holds no x.      *)
C14_Witness ==
    /\ Visited("VarDecl")
    /\ last.node.value = Var(last.node.name)
    /\ last.node.type = "float"
    /\ Len(scopes) >= 2
    /\ scopes[Len(scopes)][last.node.name] = NoneV
    /\ IsVar(Nearest(scopes, last.node.name))
    /\ Nearest(scopes, last.node.name).type_ = "int"
    /\ last.value_type = "int"
    /\ pc = "raised"
    /\ err = DeclMismatchMsg(last.node.name, "float", "int")

(* the function whose body lexically encloses the walk, None outside *)
Enclosing ==
    IF FuncFrames = {} THEN NoneV ELSE frames[Max(FuncFrames)].func_sym

(* C15: the current function is the innermost FuncDef whose body        *)
(* encloses the walk and none outside every FuncDef body, also after a  *)
(* nested or a top-level FuncDef has been walked; a Return raises       *)
(* 'return used outside of a function' exactly when no FuncDef body     *)
(* encloses it, and inside one a value of known type is checked against *)
(* the return type of the innermost enclosing function.                 *)
C15_ReturnPlacement ==
    [][/\ current_func' = Enclosing'
       /\ Step("ReturnStmt") =>
              LET r == _check_expr(last'.node.value, scopes)
                  f == Enclosing
              IN  /\ (f = NoneV) <=> (err' = ReturnOutsideMsg)
                  /\ (f # NoneV /\ ~r.raised /\ Truthy(r.type)) =>
                         IF r.type # f.return_type
                         THEN /\ pc' = "raised"
                              /\ err' = ReturnMismatchMsg(f.name,
                                            f.return_type, r.type)
                         ELSE pc' = "running" /\ err' = NoErr
                  /\ (f # NoneV /\ ~r.raised /\ ~Truthy(r.type)) =>
                         pc' = "running" /\ err' = NoErr
    ]_vars

(* C15 witness: a nested FuncDef returning float has been walked inside *)
(* the body of a function returning int, and a Return of a float after  *)
(* it raised the mismatch against the outer function's int.             *)
C15_Witness ==
    /\ Visited("ReturnStmt")
    /\ Len(frames) = 1 /\ Len(scopes) = 2
    /\ frames[1].kind = "func_def" /\ frames[1].func_sym.return_type = "int"
    /\ scopes[2]["f"].kind = "FuncSymbol"
    /\ scopes[2]["f"].return_type = "float"
    /\ last.value_type = "float"
    /\ pc = "raised"
    /\ err = ReturnMismatchMsg("f", "int", "float")

(* C15 witness, outside: a Return after a fully walked top-level        *)
(* FuncDef raised 'return used outside of a function'.                  *)
C15_WitnessOutside ==
    /\ Visited("ReturnStmt")
    /\ frames = <<>>
    /\ scopes[1]["f"].kind = "FuncSymbol"
    /\ err = ReturnOutsideMsg

----------------------------------------------------------------------------
(* Generation.  SpecGen hands generate every program of up to MaxTop     *)
(* top-level statements drawn from GenStmts; the analyzer is idle.       *)

GenVarDecls ==
    {VarDecl("x", "float", Number("2.0"), FALSE),
     VarDecl("x", "int", Number("3"), TRUE)}
GenPrints ==
    {PrintStmt(<<Var("x")>>),
     PrintStmt(<<FuncCall("f", <<>>), String("s")>>),
     PrintStmt(<<UnaryOp("-", UnaryOp("-", Var("x"))),
                 BinOp(Var("x"), "<", Var("x")), Bool(TRUE)>>)}
GenExprStmts == {ExprStmt(BinOp(Var("x"), "-", UnaryOp("-", Var("x"))))}
GenFuncDefs ==
    {FuncBlock("f", <<>>, "float",
               <<PrintStmt(<<Var("x")>>), ReturnStmt(Number("2.0"))>>),
     FuncBlock("f", <<<<"x", "int">>>>, "string", <<PrintStmt(<<Var("x")>>)>>),
     FuncBlock("f", <<>>, "void", <<FuncBlock("f", <<>>, "int", <<>>)>>)}
GenIfs ==
    {IfBlock(Bool(TRUE), <<PrintStmt(<<Var("x")>>)>>, <<>>),
     IfBlock(Bool(TRUE), <<VarDecl("x", "string", String("s"), FALSE)>>,
             <<PrintStmt(<<Var("x")>>)>>),
     IfBlock(Bool(TRUE), <<FuncBlock("f", <<>>, "int", <<>>)>>, <<>>)}
GenWhiles ==
    {WhileBlock(BinOp(Var("x"), "<", Number("3")),
                <<Assign("x", Number("3"))>>)}
GenStmts ==
    GenVarDecls \cup GenPrints \cup GenExprStmts \cup GenFuncDefs
                \cup GenIfs \cup GenWhiles
Programs == UNION {[1..n -> GenStmts] : n \in 0..MaxTop}

InitGen ==
    /\ scopes = <<Scope>>
    /\ current_func = NoneV
    /\ frames = <<>>
    /\ pc = "running"
    /\ err = NoErr
    /\ last = NoLast
    /\ nstmts = 0
    /\ program \in Programs
    /\ gen = CodeGenerator
    /\ gpc = "start"
    /\ gi = 0
    /\ c_code = <<>>

NextGen ==
    \/ generate_includes
    \/ generate_func_def
    \/ generate_pass
    \/ generate_main
    \/ generate_stmt
    \/ generate_main_return
    \/ generate_return

SpecGen == InitGen /\ [][NextGen]_<<vars, gvars>>

----------------------------------------------------------------------------
(* Properties of the generated text, checked under SpecGen *)

(* number of indentation pieces a line starts with, and the line without *)
RECURSIVE IndentOf(_)
IndentOf(line) ==
    IF line # <<>> /\ Head(line) = "    " THEN 1 + IndentOf(Tail(line)) ELSE 0
Strip(line) == SubSeq(line, IndentOf(line) + 1, Len(line))

CTypes == {"int", "float", "char*", "void"}
Includes == <<<<"#include <stdio.h>">>, <<"#include <string.h>">>, <<>>>>
MainHeader == <<"int", " ", "main", "(", ")", " ", "{">>

(* the text opens a function definition: type name(...) { *)
IsHeader(text) ==
    /\ Len(text) >= 7
    /\ text[1] \in CTypes /\ text[2] = " " /\ text[4] = "("
    /\ text[Len(text)] = "{"

(* the kind of statement a line of text starts *)
LineKind(text) ==
    IF text = <<>> THEN "blank"
    ELSE IF text[1] = "}" THEN "close"
    ELSE IF text[1] = "printf" THEN "PrintStmt"
    ELSE IF text[1] = "if" THEN "IfStmt"
    ELSE IF text[1] = "while" THEN "WhileStmt"
    ELSE IF text[1] = "return" THEN "ReturnStmt"
    ELSE IF IsHeader(text) THEN "FuncDef"
    ELSE IF text[1] = "const " THEN "VarDecl"
    ELSE IF text[1] \in CTypes /\ Len(text) >= 4 /\ text[4] = " = "
    THEN "VarDecl"
    ELSE IF Len(text) >= 2 /\ text[2] = " = " THEN "Assign"
    ELSE "ExprStmt"

(* the function definitions of a statement sequence, nested ones too, in *)
(* source order                                                          *)
RECURSIVE FuncDefsIn(_)
FuncDefsIn(stmts) ==
    IF stmts = <<>> THEN <<>>
    ELSE LET s == Head(stmts) IN
         (IF s.kind = "FuncDef" THEN <<s>> \o FuncDefsIn(s.body)
          ELSE IF s.kind = "IfStmt"
          THEN FuncDefsIn(s.then_body) \o FuncDefsIn(s.else_body)
          ELSE IF s.kind = "WhileStmt" THEN FuncDefsIn(s.body)
          ELSE <<>>)
         \o FuncDefsIn(Tail(stmts))

(* the generated text has the structure stated for this program *)
Structured(out) ==
    LET funcs == FuncDefsIn(program)
        heads == SelectSeq(out, LAMBDA l : IndentOf(l) = 0 /\ IsHeader(l)
                                               /\ l # MainHeader)
        mains == {i \in DOMAIN out : out[i] = MainHeader}
    IN  /\ SubSeq(out, 1, 3) = Includes
        /\ [i \in DOMAIN heads |-> <<heads[i][1], heads[i][3]>>]
               = [i \in DOMAIN funcs |->
                      <<chalk_type_to_c(funcs[i].return_type), funcs[i].name>>]
        /\ \A i \in DOMAIN out : IsHeader(Strip(out[i])) => IndentOf(out[i]) = 0
        /\ \A i \in DOMAIN out :
               (i > 3 /\ IndentOf(out[i]) = 0) =>
                   \/ IsHeader(out[i])
                   \/ out[i] \in {<<>>, <<"}">>}
        /\ IF non_func = <<>> THEN mains = {}
           ELSE /\ Cardinality(mains) = 1
                /\ \A m \in mains :
                       LET body == SubSeq(out, m + 1, Len(out) - 2)
                           starts == SelectSeq(body,
                                         LAMBDA l : IndentOf(l) = 1
                                             /\ LineKind(Strip(l)) # "close")
                       IN  /\ \A i \in DOMAIN out :
                                  (IsHeader(Strip(out[i])) /\ i # m) => i < m
                           /\ [i \in DOMAIN starts |-> LineKind(Strip(starts[i]))]
                                  = [i \in DOMAIN non_func |-> non_func[i].kind]
                           /\ out[Len(out) - 1]
                                  = <<"    ", "return", " ", "0", ";">>
                           /\ out[Len(out)] = <<"}">>

(* C11: the text generate returns starts with the two includes, then    *)
(* holds every function definition of the program as a function at file *)
(* scope, in source order, then, if and only if some top-level          *)
(* statement is not a FuncDef, one main that holds the other top-level  *)
(* statements in their order and ends with return 0; no function is     *)
(* defined inside main or inside another function, and no statement     *)
(* lies outside a function.                                             *)
C11_OutputStructure == gpc = "done" => Structured(gen.output)

(* the text has that structure when every FuncDef of the program is a   *)
(* top-level statement                                                  *)
StructuredWhenTopLevel ==
    (gpc = "done"
         /\ FuncDefsIn(program) = SelectSeq(program, LAMBDA s : s.kind = "FuncDef"))
        => Structured(gen.output)

(* an expression and the expressions inside it *)
RECURSIVE SubExprs(_)
SubExprs(e) ==
    {e} \cup
    (IF e.kind = "UnaryOp" THEN SubExprs(e.operand)
     ELSE IF e.kind = "BinOp" THEN SubExprs(e.left) \cup SubExprs(e.right)
     ELSE IF e.kind = "FuncCall"
     THEN UNION {SubExprs(e.args[i]) : i \in DOMAIN e.args}
     ELSE {})

(* the expressions the statements hold, bodies included *)
RECURSIVE ExprsIn(_)
ExprsIn(stmts) ==
    IF stmts = <<>> THEN {}
    ELSE LET s == Head(stmts) IN
         (IF s.kind \in {"VarDecl", "Assign", "ExprStmt"} THEN SubExprs(s.value)
          ELSE IF s.kind = "ReturnStmt"
          THEN IF s.value = NoneV THEN {} ELSE SubExprs(s.value)
          ELSE IF s.kind = "PrintStmt"
          THEN UNION {SubExprs(s.values[i]) : i \in DOMAIN s.values}
          ELSE IF s.kind = "IfStmt"
          THEN SubExprs(s.condition) \cup ExprsIn(s.then_body)
                                     \cup ExprsIn(s.else_body)
          ELSE IF s.kind = "WhileStmt"
          THEN SubExprs(s.condition) \cup ExprsIn(s.body)
          ELSE IF s.kind = "FuncDef" THEN ExprsIn(s.body)
          ELSE {})
         \cup ExprsIn(Tail(stmts))

(* the text lies inside a pair of parentheses of its own *)
Wrapped(text) == Head(text) = "(" /\ text[Len(text)] = ")"

(* two minus signs with nothing between them: the target language reads *)
(* them as one decrement operator                                       *)
MinusMerges(text) ==
    \E i \in 1..(Len(text) - 1) : text[i] = "-" /\ text[i + 1] = "-"

(* C12: every UnaryOp and every BinOp of the program is rendered inside *)
(* its own pair of parentheses, and no line of the generated text holds *)
(* a negation that merges with the operator next to it.                 *)
C12_OperatorsParenthesized ==
    gpc = "done" =>
        /\ \A e \in ExprsIn(program) :
               e.kind \in {"UnaryOp", "BinOp"} => Wrapped(_gen_expr(e))
        /\ \A i \in DOMAIN gen.output : ~MinusMerges(gen.output[i])

(* every BinOp is rendered inside its own pair of parentheses *)
BinOpsParenthesized ==
    gpc = "done" =>
        \A e \in ExprsIn(program) : e.kind = "BinOp" => Wrapped(_gen_expr(e))

(* what the walk of the generator meets in these statements, in the     *)
(* order it meets it: declarations of variables and parameters,         *)
(* function definitions, Print statements                               *)
RECURSIVE WalkEvents(_)
WalkEvents(stmts) ==
    IF stmts = <<>> THEN <<>>
    ELSE LET s == Head(stmts) IN
         (IF s.kind = "VarDecl"
          THEN <<[ev |-> "var", name |-> s.name, type |-> s.type]>>
          ELSE IF s.kind = "FuncDef"
          THEN <<[ev |-> "func", name |-> s.name, type |-> s.return_type]>>
               \o [i \in DOMAIN s.params |->
                       [ev |-> "var", name |-> s.params[i][1],
                        type |-> s.params[i][2]]]
               \o WalkEvents(s.body)
          ELSE IF s.kind = "IfStmt"
          THEN WalkEvents(s.then_body) \o WalkEvents(s.else_body)
          ELSE IF s.kind = "WhileStmt" THEN WalkEvents(s.body)
          ELSE IF s.kind = "PrintStmt"
          THEN <<[ev |-> "print", values |-> s.values]>>
          ELSE <<>>)
         \o WalkEvents(Tail(stmts))

(* the walk of generate: the top-level FuncDefs, then the rest *)
GenWalk ==
    WalkEvents(SelectSeq(program, LAMBDA s : s.kind = "FuncDef"))
        \o WalkEvents(non_func)

(* the type of the declaration of this kind and name that the walk met  *)
(* last before position j, None if it met none                          *)
LastSeen(walk, ev, name, j) ==
    LET met == {i \in 1..(j - 1) : walk[i].ev = ev /\ walk[i].name = name} IN
    IF met = {} THEN NoneType ELSE walk[Max(met)].type

(* the derived type of a literal, a variable or a call at position j *)
Derived(walk, e, j) ==
    IF e.kind = "Number"
    THEN IF e.value \in FloatValues THEN "float" ELSE "int"
    ELSE IF e.kind = "String" THEN "string"
    ELSE IF e.kind = "Bool" THEN "bool"
    ELSE IF e.kind = "Var" THEN LastSeen(walk, "var", e.name, j)
    ELSE LastSeen(walk, "func", e.name, j)

Placeholder(type) ==
    IF type = "string" THEN "%s" ELSE IF type = "float" THEN "%f" ELSE "%d"

(* C13: every Print statement the walk meets becomes one printf line:   *)
(* one placeholder per printed expression in order, then the newline    *)
(* escape, then the lowered expressions in order; the placeholder of a  *)
(* literal is that of its type, of a variable that of the declaration   *)
(* of the name met last by the walk, of a call that of the return type  *)
(* of the function of that name, and %d when none is known.             *)
C13_PrintLowering ==
    gpc = "done" =>
        LET walk == GenWalk
            prints == SelectSeq([j \in DOMAIN walk |-> j],
                                LAMBDA j : walk[j].ev = "print")
            calls == {i \in DOMAIN gen.output :
                          LineKind(Strip(gen.output[i])) = "PrintStmt"}
        IN  /\ Len(gen.printed) = Len(prints)
            /\ calls = {gen.printed[k].line : k \in DOMAIN gen.printed}
            /\ Cardinality(calls) = Len(prints)
            /\ \A k \in DOMAIN prints :
                   LET values == walk[prints[k]].values
                       text == Strip(gen.output[gen.printed[k].line])
                       n == Len(values)
                   IN  /\ gen.printed[k].values = values
                       /\ SubSeq(text, 1, 3) = <<"printf", "(", "\"">>
                       /\ \A i \in 1..n :
                              /\ text[3 + i] \in {"%s", "%f", "%d"}
                              /\ values[i].kind \notin {"UnaryOp", "BinOp"} =>
                                     text[3 + i] = Placeholder(
                                         Derived(walk, values[i], prints[k]))
                       /\ SubSeq(text, 4 + n, Len(text))
                              = <<"\\n", "\"", ", ">>
                                    \o Join([i \in 1..n |-> _gen_expr(values[i])],
                                            <<", ">>)
                                    \o <<")", ";">>

(* C13 witness: the walk met print(x) in the body of f(x: int) ->       *)
(* string, then print(f(), "s") in main: the first line has %d, the     *)
(* second %s%s.                                                         *)
C13_Witness ==
    /\ gpc = "done"
    /\ Len(gen.printed) = 2
    /\ gen.printed[1].values = <<Var("x")>>
    /\ SubSeq(Strip(gen.output[gen.printed[1].line]), 4, 5) = <<"%d", "\\n">>
    /\ gen.printed[2].values = <<FuncCall("f", <<>>), String("s")>>
    /\ SubSeq(Strip(gen.output[gen.printed[2].line]), 4, 6)
           = <<"%s", "%s", "\\n">>

----------------------------------------------------------------------------
(* The analyzer's types of the printed expressions of a whole program.  *)
(* Analyzed walks the statements as analyze does (scopes pushed, popped *)
(* and defined by the rules of the statement handlers) and records, for *)
(* every Print statement, what _check_expr yields for each printed      *)
(* expression in the scopes of that point.                              *)

Analysis(S) == [S |-> S, ok |-> TRUE, prints |-> <<>>]

(* the expression is checked in the scopes of A *)
Checked(A, e) == [A EXCEPT !.ok = @ /\ ~_check_expr(e, A.S).raised]

RECURSIVE Analyzed(_, _)
Analyzed(stmts, A) ==
    IF stmts = <<>> THEN A
    ELSE LET s == Head(stmts)
             here ==
                 IF s.kind = "VarDecl"
                 THEN [Checked(A, s.value) EXCEPT
                          !.S = _define(@, s.name,
                                        Symbol(s.name, s.type, s.mutable))]
                 ELSE IF s.kind \in {"Assign", "ExprStmt", "ReturnStmt"}
                 THEN Checked(A, s.value)
                 ELSE IF s.kind = "PrintStmt"
                 THEN [A EXCEPT
                          !.ok = @ /\ \A i \in DOMAIN s.values :
                                          ~_check_expr(s.values[i], A.S).raised,
                          !.prints = Append(@,
                              [i \in DOMAIN s.values |->
                                   _check_expr(s.values[i], A.S).type])]
                 ELSE IF s.kind = "IfStmt"
                 THEN LET c == Checked(A, s.condition)
                          th == Analyzed(s.then_body,
                                         [c EXCEPT !.S = _push_scope(@)])
                          el == Analyzed(s.else_body,
                                         [th EXCEPT !.S = _push_scope(_pop_scope(@))])
                      IN  [el EXCEPT !.S = _pop_scope(@)]
                 ELSE IF s.kind = "WhileStmt"
                 THEN LET c == Checked(A, s.condition)
                          b == Analyzed(s.body, [c EXCEPT !.S = _push_scope(@)])
                      IN  [b EXCEPT !.S = _pop_scope(@)]
                 ELSE IF s.kind = "FuncDef"
                 THEN LET func_sym == FuncSymbol(s.name, s.params, s.return_type)
                          entered ==
                              [A EXCEPT !.S = define_params(
                                   _push_scope(_define(@, s.name, func_sym)),
                                   s.params, 1)]
                          b == Analyzed(s.body, entered)
                      IN  [b EXCEPT !.S = _pop_scope(@)]
                 ELSE A
         IN  Analyzed(Tail(stmts), here)

(* the analysis of the first i top-level statements of the program *)
AnalysisOf(i) == Analyzed(SubSeq(program, 1, i), Analysis(<<Scope>>))

(* the types the analyzer infers for the Print statements inside the    *)
(* top-level statement i, in source order                               *)
PrintTypesOf(i) ==
    SubSeq(AnalysisOf(i).prints, Len(AnalysisOf(i - 1).prints) + 1,
           Len(AnalysisOf(i).prints))

RECURSIVE Concat(_)
Concat(seqs) == IF seqs = <<>> THEN <<>> ELSE Head(seqs) \o Concat(Tail(seqs))

(* the analyzer's types, in the order the generator meets the prints *)
AnalyzerTypes ==
    LET top == [i \in DOMAIN program |-> i]
        funcs == SelectSeq(top, LAMBDA i : program[i].kind = "FuncDef")
        rest == SelectSeq(top, LAMBDA i : program[i].kind # "FuncDef")
    IN  Concat([k \in DOMAIN funcs |-> PrintTypesOf(funcs[k])])
            \o Concat([k \in DOMAIN rest |-> PrintTypesOf(rest[k])])

(* no variable, parameter or function name is declared twice *)
UniqueNames ==
    LET walk == GenWalk
        decls == {j \in DOMAIN walk : walk[j].ev \in {"var", "func"}}
    IN  \A i \in decls : \A j \in decls : walk[i].name = walk[j].name => i = j

WellTyped == AnalysisOf(Len(program)).ok

(* C16: for a program that declares no name twice and whose expressions *)
(* are all well-typed for the analyzer, the type the generator derives  *)
(* for every printed expression is the type the analyzer infers for it  *)
(* at that point, and the placeholder is the one of the analyzer's type.*)
C16_TypesAgree ==
    (gpc = "done" /\ UniqueNames /\ WellTyped) =>
        /\ [k \in DOMAIN gen.printed |-> gen.printed[k].types] = AnalyzerTypes
        /\ \A k \in DOMAIN gen.printed :
               \A i \in DOMAIN gen.printed[k].values :
                   Strip(gen.output[gen.printed[k].line])[3 + i]
                       = Placeholder(AnalyzerTypes[k][i])

(* the two agree on the prints of main: programs that print nothing     *)
(* inside a top-level function                                          *)
TypesAgreeInMain ==
    (gpc = "done" /\ UniqueNames /\ WellTyped
         /\ \A i \in DOMAIN program :
                program[i].kind = "FuncDef" => PrintTypesOf(i) = <<>>)
        => [k \in DOMAIN gen.printed |-> gen.printed[k].types] = AnalyzerTypes

====
